---- MODULE Spec2Model ----
(***************************************************************************)
(* State-machine model of mtg.py: a command-line query over card decks.    *)
(* One run of the script is one behaviour: the arguments are parsed one    *)
(* token per step, every selected deck is loaded (from its cache or from   *)
(* the card-data provider), the cards are filtered, collapsed, filtered on *)
(* amount, sorted, the statistics are printed and the result is written to *)
(* the output decks.                                                        *)
(*                                                                         *)
(* Encoding of Python values:                                              *)
(*  - a str that the script looks into (card attributes, filter operands,  *)
(*    raw columns) is a sequence of one-character strings;                 *)
(*  - a str that is only looked up or compared whole (prefix, attribute    *)
(*    name, operator, flag, deck name) is a TLA+ string;                   *)
(*  - None is the string "None" for names, << "None" >> for an attribute   *)
(*    of kind str and -1 for a numeric attribute (no number of the model   *)
(*    is negative); a regex group `search` that is None is << >> (a        *)
(*    search that is not None is a non-empty list);                        *)
(*  - list positions are 1-based.                                          *)
(***************************************************************************)
EXTENDS Integers, Sequences, FiniteSets, TLC

VARIABLES
    argv,       \* the arguments, each the groups of the regex of line 94
    pc,         \* position of the script
    i,          \* index of the next argument to parse
    decks,      \* all decks to search
    outputs,    \* all decks to output to
    elements,   \* all elements to print
    stats,      \* all global stats to print
    filters,    \* all filters applied to cards
    flags,      \* all flags set
    cards,      \* all cards found
    collapsed,  \* the collapsed cards
    todo,       \* decks the current `for deck in ...` loop has not visited
    fi,         \* index of the current `for e, f in filters` loop
    si,         \* index of the `for e, m in stats` loop
    fs_dirs,    \* deck directories that exist
    fs_data,    \* data.json of each deck
    fs_raw,     \* raw.txt of each deck
    failing,    \* collector numbers the provider answers with a bad status
    io,         \* file-system and network operations done so far
    out,        \* lines printed so far
    status      \* exit status (-1 while running)

vars == << argv, pc, i, decks, outputs, elements, stats, filters, flags, cards,
           collapsed, todo, fi, si, fs_dirs, fs_data, fs_raw, failing, io, out,
           status >>

None == "None"
NoneStr == << "None" >>
NoneNum == -1

(***************************************************************************)
(* Strings                                                                 *)
(***************************************************************************)
\* the characters of the model in code-point order
CHARS == << ".", "0", "1", "2", "3", "4", "5", "6", "7", "8", "9",
            "T", "a", "b", "e", "f", "l", "m", "n", "r", "s", "t", "u", "x" >>

Ord(c) == CHOOSE k \in 1..Len(CHARS) : CHARS[k] = c

IsDigit(c) == c \in {"0", "1", "2", "3", "4", "5", "6", "7", "8", "9"}

DigitValue(c) == Ord(c) - Ord("0")

\* str.isdigit
isdigit(s) == Len(s) > 0 /\ \A k \in 1..Len(s) : IsDigit(s[k])

\* int(s) of a string of digits
RECURSIVE int(_)
int(s) == IF Len(s) = 0 THEN 0
          ELSE 10 * int(SubSeq(s, 1, Len(s) - 1)) + DigitValue(s[Len(s)])

\* str(n) of a natural number
RECURSIVE str(_)
str(n) == IF n < 10 THEN << CHARS[n + Ord("0")] >>
          ELSE str(n \div 10) \o << CHARS[(n % 10) + Ord("0")] >>

\* str.lower
lower(s) == [k \in 1..Len(s) |-> IF s[k] = "T" THEN "t" ELSE s[k]]

\* b in a, for two str
Contains(a, b) ==
    \E k \in 0..(Len(a) - Len(b)) : SubSeq(a, k + 1, k + Len(b)) = b

\* a < b, for two str
RECURSIVE StrLess(_, _)
StrLess(a, b) ==
    IF Len(b) = 0 THEN FALSE
    ELSE IF Len(a) = 0 THEN TRUE
    ELSE IF a[1] # b[1] THEN Ord(a[1]) < Ord(b[1])
    ELSE StrLess(Tail(a), Tail(b))

(***************************************************************************)
(* The schema                                                              *)
(***************************************************************************)
\* card attribute name: card attribute is numeric
ELEMENTS ==
    [e \in {"amount", "foil", "name", "lang", "cost", "cmc", "type", "subtype",
            "color", "identity", "text", "modern", "commander", "set",
            "number", "rarity", "fullart", "usd", "eur"}
       |-> e \in {"amount", "cmc", "usd", "eur"}]

\* global numeric attribute: [non-numeric compatibility, numeric compatibility]
PREFIXES ==
    [p \in {"-total-", "-max-", "-min-", "-avg-", "-median-", "-unique-"}
       |-> [numeric \in BOOLEAN |-> numeric \/ p = "-unique-"]]

\* attribute filters: [non-numeric compatibility, numeric compatibility]
FILTERS ==
    [f \in {"=", "!=", "?", "!?", "<", "<=", ">", ">="}
       |-> [numeric \in BOOLEAN |->
              IF numeric THEN f \notin {"?", "!?"}
              ELSE f \in {"=", "!=", "?", "!?"}]]

\* standalone flags
FLAGS == {"decks", "get", "get_img", "pdf", "html", "o"}

\* column order in raw data
RAW_COLUMNS == << "amount", "set", "number", "lang", "foil" >>

\* the attributes a card of the model carries
CardAttributes == {"amount", "foil", "name", "subtype", "usd", "number", "raw"}

\* None of attribute e
NoneOf(e) == IF ELEMENTS[e] THEN NoneNum ELSE NoneStr

(***************************************************************************)
(* parse arguments                                                         *)
(***************************************************************************)
\* the groups (prefix, element, show, search) of one argument, search already
\* split on "/" into (operator, value) pairs
Token(prefix, element, show, search) ==
    [prefix |-> prefix, element |-> element, show |-> show, search |-> search]

\* re.match("^[0-9]+(.[0-9]+)?$", v): the "." of the pattern is any character
IsNumber(v) ==
    \/ isdigit(v)
    \/ \E k \in 2..(Len(v) - 1) :
          isdigit(SubSeq(v, 1, k - 1)) /\ isdigit(SubSeq(v, k + 1, Len(v)))

\* float(v) raises no ValueError
Floatable(v) ==
    \/ isdigit(v)
    \/ \E k \in 2..(Len(v) - 1) :
          /\ v[k] = "."
          /\ isdigit(SubSeq(v, 1, k - 1)) /\ isdigit(SubSeq(v, k + 1, Len(v)))

\* float(v); the operands of the model have no fractional part but zeros
float(v) ==
    IF isdigit(v) THEN int(v)
    ELSE LET k == CHOOSE k \in 2..(Len(v) - 1) : v[k] = "." IN
         int(SubSeq(v, 1, k - 1))

\* case (p, e, None, None) if p in PREFIXES and e in ELEMENTS and PREFIXES[p][ELEMENTS[e]]
StatCase(t) ==
    /\ t.show = None /\ t.search = << >>
    /\ t.prefix \in DOMAIN PREFIXES
    /\ t.element \in DOMAIN ELEMENTS
    /\ PREFIXES[t.prefix][ELEMENTS[t.element]]

\* all(f in FILTERS and FILTERS[f][numeric] for f, _ in l)
AllFilters(l, numeric) ==
    \A k \in 1..Len(l) : l[k][1] \in DOMAIN FILTERS /\ FILTERS[l[k][1]][numeric]

\* CountableCase without the check of the operators against FILTERS
CountableCaseAnyOperator(t) ==
    /\ t.prefix = "-"
    /\ t.element \in DOMAIN ELEMENTS
    /\ ELEMENTS[t.element]
    /\ t.search # << >>

\* case ("-", e, q, l) if e in ELEMENTS and ELEMENTS[e] and l and all(...)
CountableCase(t) ==
    /\ t.prefix = "-"
    /\ t.element \in DOMAIN ELEMENTS
    /\ ELEMENTS[t.element]
    /\ t.search # << >>
    /\ AllFilters(t.search, TRUE)

\* case ("-", e, q, l) if e in ELEMENTS and not ELEMENTS[e] and l and all(...)
UncountableCase(t) ==
    /\ t.prefix = "-"
    /\ t.element \in DOMAIN ELEMENTS
    /\ ~ELEMENTS[t.element]
    /\ t.search # << >>
    /\ AllFilters(t.search, FALSE)

\* case ("-", e, None, None) if e in ELEMENTS
ElementCase(t) ==
    /\ t.prefix = "-" /\ t.show = None /\ t.search = << >>
    /\ t.element \in DOMAIN ELEMENTS

\* case ("-", f, None, None) if f in FLAGS
FlagCase(t) ==
    /\ t.prefix = "-" /\ t.show = None /\ t.search = << >>
    /\ t.element \in FLAGS

\* case (None, e, None, None)
DeckCase(t) == t.prefix = None /\ t.show = None /\ t.search = << >>

\* the first case of the match statement that accepts t
match(t) ==
    IF StatCase(t) THEN "stat element"
    ELSE IF CountableCase(t) THEN "filtered countable element"
    ELSE IF UncountableCase(t) THEN "filtered uncountable element"
    ELSE IF ElementCase(t) THEN "unfiltered element"
    ELSE IF FlagCase(t) THEN "flags"
    ELSE IF DeckCase(t) THEN "deck"
    ELSE "unable to match"

Line(kind, e, m, value) == [kind |-> kind, e |-> e, m |-> m, value |-> value]

\* print(f"ERROR: ...") followed by exit(1)
Error(kind) ==
    /\ out' = Append(out, Line(kind, "", "", 0))
    /\ pc' = "exit"
    /\ status' = 1

\* an uncaught exception: the traceback is printed and the exit status is 1
Raise(exception) ==
    /\ out' = Append(out, Line(exception, "", "", 0))
    /\ pc' = "exit"
    /\ status' = 1

Parsing(case) ==
    /\ pc = "parse arguments"
    /\ i <= Len(argv)
    /\ match(argv[i]) = case

loadVars == << cards, collapsed, todo, fi, si >>
fsVars == << fs_dirs, fs_data, fs_raw, failing, io >>

StatElement ==
    /\ Parsing("stat element")
    /\ stats' = Append(stats, << argv[i].element, argv[i].prefix >>)
    /\ i' = i + 1
    /\ UNCHANGED << argv, pc, decks, outputs, elements, filters, flags, out, status >>
    /\ UNCHANGED << loadVars, fsVars >>

FilteredCountableElement ==
    /\ Parsing("filtered countable element")
    /\ LET e == argv[i].element
           l == argv[i].search
       IN  IF \E k \in 1..Len(l) : ~IsNumber(l[k][2])
           THEN /\ Error("is not a number")
                /\ UNCHANGED << i, filters, elements >>
           ELSE IF \E k \in 1..Len(l) : ~Floatable(l[k][2])
           THEN /\ Raise("ValueError")
                /\ UNCHANGED << i, filters, elements >>
           ELSE /\ filters' = Append(filters,
                       << e, [k \in 1..Len(l) |-> << l[k][1], float(l[k][2]) >>] >>)
                /\ elements' = IF argv[i].show = None THEN Append(elements, e)
                               ELSE elements
                /\ i' = i + 1
                /\ UNCHANGED << pc, out, status >>
    /\ UNCHANGED << argv, decks, outputs, stats, flags >>
    /\ UNCHANGED << loadVars, fsVars >>

FilteredUncountableElement ==
    /\ Parsing("filtered uncountable element")
    /\ filters' = Append(filters, << argv[i].element, argv[i].search >>)
    /\ elements' = IF argv[i].show = None THEN Append(elements, argv[i].element)
                   ELSE elements
    /\ i' = i + 1
    /\ UNCHANGED << argv, pc, decks, outputs, stats, flags, out, status >>
    /\ UNCHANGED << loadVars, fsVars >>

UnfilteredElement ==
    /\ Parsing("unfiltered element")
    /\ elements' = Append(elements, argv[i].element)
    /\ i' = i + 1
    /\ UNCHANGED << argv, pc, decks, outputs, stats, filters, flags, out, status >>
    /\ UNCHANGED << loadVars, fsVars >>

Flag ==
    /\ Parsing("flags")
    /\ flags' = flags \cup {argv[i].element}
    /\ i' = i + 1
    /\ UNCHANGED << argv, pc, decks, outputs, elements, stats, filters, out, status >>
    /\ UNCHANGED << loadVars, fsVars >>

\* DeckFlagsAfter without flags.remove("o")
DeckFlagsKept(fl) == fl

\* flags.remove("o")
DeckFlagsAfter(fl) == fl \ {"o"}

Deck ==
    /\ Parsing("deck")
    /\ IF "o" \in flags
       THEN /\ outputs' = outputs \cup {argv[i].element}
            /\ flags' = DeckFlagsAfter(flags)  \* don't output all following
            /\ UNCHANGED decks
       ELSE /\ decks' = decks \cup {argv[i].element}
            /\ UNCHANGED << outputs, flags >>
    /\ i' = i + 1
    /\ UNCHANGED << argv, pc, elements, stats, filters, out, status >>
    /\ UNCHANGED << loadVars, fsVars >>

UnableToMatch ==
    /\ Parsing("unable to match")
    /\ Error("is not a recognized command")
    /\ UNCHANGED << argv, i, decks, outputs, elements, stats, filters, flags >>
    /\ UNCHANGED << loadVars, fsVars >>

\* the loop over argv[1:] ends and the loop over the decks begins
ParsedArguments ==
    /\ pc = "parse arguments"
    /\ i > Len(argv)
    /\ pc' = "get card data"
    /\ todo' = decks
    /\ UNCHANGED << argv, i, decks, outputs, elements, stats, filters, flags,
                    cards, collapsed, fi, si, out, status >>
    /\ UNCHANGED fsVars

(***************************************************************************)
(* get card data                                                           *)
(***************************************************************************)
\* a file that does not exist, and the three contents a data.json can have
NoFile == [exists |-> FALSE, text |-> "", cards |-> << >>]
EmptyFile == [exists |-> TRUE, text |-> "", cards |-> << >>]
GarbageFile == [exists |-> TRUE, text |-> "garbage", cards |-> << >>]
JsonFile(data) == [exists |-> TRUE, text |-> "json", cards |-> data]

NoRawFile == [exists |-> FALSE, lines |-> << >>]
RawFile(lines) == [exists |-> TRUE, lines |-> lines]

\* what the provider knows, by collector number (set and language are fixed)
Catalogue ==
    [n \in {<< "1" >>, << "2" >>} |->
        IF n = << "1" >>
        THEN [name |-> << "a" >>, type_line |-> << << "c" >> >>,
              usd |-> << "1" >>, usd_foil |-> << "2" >>, collector_number |-> n]
        ELSE [name |-> << "a", "b" >>, type_line |-> << << "c" >>, << "s" >> >>,
              usd |-> NoneStr, usd_foil |-> NoneStr, collector_number |-> n]]

\* the None that get_card returns after a bad status
NoResponse == [status |-> 404]

\* get_card: the response, or None after a bad status
get_card(card) ==
    IF card["number"] \in DOMAIN Catalogue /\ card["number"] \notin failing
    THEN Catalogue[card["number"]]
    ELSE NoResponse

\* get_cards: one request per card, the answers in the order of the cards
get_cards(raw) == [k \in 1..Len(raw) |-> get_card(raw[k])]

\* dict(zip(RAW_COLUMNS, line.rstrip("\n").split("\t")))
RawDict(columns) ==
    [e \in {RAW_COLUMNS[k] : k \in 1..(IF Len(columns) < Len(RAW_COLUMNS)
                                        THEN Len(columns) ELSE Len(RAW_COLUMNS))}
       |-> columns[CHOOSE k \in 1..Len(RAW_COLUMNS) : RAW_COLUMNS[k] = e]]

\* all(r[e] == c[e] for e in RAW_COLUMNS if e != "amount")
SameRaw(r, c) ==
    \A k \in 1..Len(RAW_COLUMNS) :
        RAW_COLUMNS[k] # "amount" => r[RAW_COLUMNS[k]] = c[RAW_COLUMNS[k]]

\* combine duplicates
RECURSIVE CombineDuplicates(_, _)
CombineDuplicates(raw, collapsed_raw) ==
    IF raw = << >> THEN collapsed_raw
    ELSE LET r == [Head(raw) EXCEPT !["amount"] = int(@), !["foil"] = lower(@)]
             hit == {k \in 1..Len(collapsed_raw) : SameRaw(r, collapsed_raw[k])}
         IN  IF hit # {}
             THEN LET k == CHOOSE k \in hit : \A h \in hit : k <= h IN
                  CombineDuplicates(Tail(raw),
                      [collapsed_raw EXCEPT ![k]["amount"] = @ + r["amount"]])
             ELSE CombineDuplicates(Tail(raw), Append(collapsed_raw, r))

TRUE_ == << "t", "r", "u", "e" >>
FALSE_ == << "f", "a", "l", "s", "e" >>

\* process information about card (lines 264-294)
MakeCard(r, s) ==
    LET foil == r["foil"] = TRUE_
        usd == IF foil THEN s.usd_foil ELSE s.usd
    IN  [amount |-> r["amount"],
         foil |-> foil,
         name |-> s.name,
         subtype |-> IF Len(s.type_line) > 1 THEN s.type_line[2] ELSE NoneStr,
         usd |-> IF usd = NoneStr THEN NoneNum ELSE float(usd),
         number |-> s.collector_number,
         raw |-> [k \in 1..Len(RAW_COLUMNS) |->
                    IF RAW_COLUMNS[k] = "amount" THEN str(r["amount"])
                    ELSE r[RAW_COLUMNS[k]]]]

Loading(deck) ==
    /\ pc = "get card data"
    /\ deck \in todo

Did(ops) == io' = io \o ops

\* os.path.join(DECK_DIR, None)
DeckIsNone ==
    /\ Loading(None)
    /\ Raise("TypeError")
    /\ UNCHANGED << argv, i, decks, outputs, elements, stats, filters, flags >>
    /\ UNCHANGED << loadVars, fsVars >>

DeckNotFound ==
    \E deck \in todo \ {None} :
        /\ Loading(deck)
        /\ deck \notin fs_dirs
        /\ Did(<< << "isdir", deck >> >>)
        /\ Error("Could not find deck")
        /\ UNCHANGED << argv, i, decks, outputs, elements, stats, filters, flags >>
        /\ UNCHANGED << loadVars, fs_dirs, fs_data, fs_raw, failing >>

\* load from file
LoadFromFile ==
    \E deck \in todo \ {None} :
        /\ Loading(deck)
        /\ deck \in fs_dirs
        /\ "get" \notin flags
        /\ IF ~fs_data[deck].exists
           THEN /\ Did(<< << "isdir", deck >>, << "isfile", deck >> >>)
                /\ Error("Could not find data.json")
                /\ UNCHANGED << cards, todo >>
           ELSE IF fs_data[deck].text # "json"
           THEN /\ Did(<< << "isdir", deck >>, << "isfile", deck >>,
                          << "read data.json", deck >> >>)
                /\ Error("contains invalid json")
                /\ UNCHANGED << cards, todo >>
           ELSE /\ Did(<< << "isdir", deck >>, << "isfile", deck >>,
                          << "read data.json", deck >> >>)
                /\ cards' = cards \o fs_data[deck].cards
                /\ todo' = todo \ {deck}
                /\ UNCHANGED << pc, out, status >>
        /\ UNCHANGED << argv, i, decks, outputs, elements, stats, filters, flags >>
        /\ UNCHANGED << collapsed, fi, si, fs_dirs, fs_data, fs_raw, failing >>

\* data.json once open(data_path, "w") has run
Opened(file) == EmptyFile

\* get cards from api
GetFromApi ==
    \E deck \in todo \ {None} :
        /\ Loading(deck)
        /\ deck \in fs_dirs
        /\ "get" \in flags
        /\ LET checks == << << "isdir", deck >>, << "isfile", deck >> >>
               opens == << << "read raw.txt", deck >>, << "open data.json", deck >> >>
               raw == [k \in 1..Len(fs_raw[deck].lines) |->
                          RawDict(fs_raw[deck].lines[k])]
               collapsed_raw == CombineDuplicates(raw, << >>)
               scry == get_cards(collapsed_raw)
               data == [k \in 1..Len(collapsed_raw) |->
                          MakeCard(collapsed_raw[k], scry[k])]
               requests == [k \in 1..Len(collapsed_raw) |->
                              << "http get", collapsed_raw[k]["number"] >>]
           IN  IF ~fs_raw[deck].exists
               THEN /\ Did(checks)
                    /\ Error("Could not find raw.txt")
                    /\ UNCHANGED << cards, todo, fs_data >>
               ELSE IF \E k \in 1..Len(raw) :
                           Cardinality(DOMAIN raw[k]) < Len(RAW_COLUMNS)
               THEN /\ Did(checks \o opens)
                    /\ fs_data' = [fs_data EXCEPT ![deck] = Opened(@)]
                    /\ Error("too few columns")
                    /\ UNCHANGED << cards, todo >>
               ELSE IF \E k \in 1..Len(raw) : ~isdigit(raw[k]["amount"])
               THEN /\ Did(checks \o opens)
                    /\ fs_data' = [fs_data EXCEPT ![deck] = Opened(@)]
                    /\ Error("is not a valid amount")
                    /\ UNCHANGED << cards, todo >>
               ELSE IF \E k \in 1..Len(scry) : scry[k] = NoResponse
               THEN /\ Did(checks \o opens \o requests)
                    /\ fs_data' = [fs_data EXCEPT ![deck] = Opened(@)]
                    /\ out' = out \o [k \in 1..Cardinality({j \in 1..Len(scry) : scry[j] = NoResponse})
                                        |-> Line("returned http code", "", "", NoResponse.status)]
                    /\ pc' = "exit"
                    /\ status' = 1
                    /\ UNCHANGED << cards, todo >>
               ELSE /\ Did(checks \o opens \o requests
                             \o << << "write data.json", deck >> >>)
                    /\ fs_data' = [fs_data EXCEPT ![deck] = JsonFile(data)]
                    /\ cards' = cards \o data
                    /\ todo' = todo \ {deck}
                    /\ UNCHANGED << pc, out, status >>
        /\ UNCHANGED << argv, i, decks, outputs, elements, stats, filters, flags >>
        /\ UNCHANGED << collapsed, fi, si, fs_dirs, fs_raw, failing >>

\* the loop over the decks ends and the loop over the filters begins
GotCardData ==
    /\ pc = "get card data"
    /\ todo = {}
    /\ pc' = "apply card filters"
    /\ fi' = 1
    /\ UNCHANGED << argv, i, decks, outputs, elements, stats, filters, flags,
                    cards, collapsed, todo, si, out, status >>
    /\ UNCHANGED fsVars

(***************************************************************************)
(* apply card filters, collapse duplicate cards, filter amount             *)
(***************************************************************************)
filter_map(o, a, b) ==
    CASE o = "=" -> a = b
      [] o = "!=" -> a # b
      [] o = "?" -> Contains(a, b)
      [] o = "!?" -> ~Contains(a, b)
      [] o = ">" -> a > b
      [] o = ">=" -> a >= b
      [] o = "<" -> a < b
      [] o = "<=" -> a <= b

\* any(filter_map[o](c[e], v) for o, v in f)
AnyOption(c, e, f) == \E k \in 1..Len(f) : filter_map(f[k][1], c[e], f[k][2])

\* Keep without the test for None
KeepAnyOption(c, e, f) == AnyOption(c, e, f)

\* c[e] is not None and any(filter_map[o](c[e], v) for o, v in f)
Keep(c, e, f) == c[e] # NoneOf(e) /\ AnyOption(c, e, f)

\* [x for k, x in enumerate(l) if k in keep]
RECURSIVE Positions(_, _, _)
Positions(l, keep, k) ==
    IF k > Len(l) THEN << >>
    ELSE (IF k \in keep THEN << l[k] >> ELSE << >>) \o Positions(l, keep, k + 1)

\* a first loop that applies the filters on amount too
FirstLoopSkipsNothing(e) == FALSE

\* if e == "amount": continue
FirstLoopSkips(e) == e = "amount"

ApplyCardFilter ==
    /\ pc = "apply card filters"
    /\ fi <= Len(filters)
    /\ LET e == filters[fi][1]
           f == filters[fi][2]
       IN  cards' = IF FirstLoopSkips(e) THEN cards  \* collapse before amount filter
                    ELSE Positions(cards,
                                   {k \in 1..Len(cards) : Keep(cards[k], e, f)}, 1)
    /\ fi' = fi + 1
    /\ UNCHANGED << argv, pc, i, decks, outputs, elements, stats, filters, flags,
                    collapsed, todo, si, out, status >>
    /\ UNCHANGED fsVars

\* c | {"_ids": [k]}
WithIds(c, ids) ==
    [x \in DOMAIN c \cup {"_ids"} |-> IF x = "_ids" THEN ids ELSE c[x]]

\* Relevant comparing the attributes of the statistics too
RelevantWithStats(c, o) ==
    /\ \A k \in 1..Len(elements) :
          elements[k] # "amount" => c[elements[k]] = o[elements[k]]
    /\ \A k \in 1..Len(stats) :
          stats[k][1] # "amount" => c[stats[k][1]] = o[stats[k][1]]

\* all(c[e] == o[e] for e in elements if e != "amount")
Relevant(c, o) ==
    \A k \in 1..Len(elements) :
        elements[k] # "amount" => c[elements[k]] = o[elements[k]]

\* the loop of lines 335-344 from card k on
RECURSIVE Collapse(_, _, _)
Collapse(l, k, acc) ==
    IF k > Len(l) THEN acc
    ELSE LET c == l[k]
             hit == {j \in 1..Len(acc) : Relevant(c, acc[j])}
         IN  IF hit # {}
             THEN LET j == CHOOSE j \in hit : \A h \in hit : j <= h IN
                  Collapse(l, k + 1,
                      [acc EXCEPT ![j]["amount"] = @ + c["amount"],
                                  ![j]["_ids"] = Append(@, k)])
             ELSE Collapse(l, k + 1, Append(acc, WithIds(c, << k >>)))

CollapseDuplicateCards ==
    /\ pc = "apply card filters"
    /\ fi > Len(filters)
    /\ collapsed' = Collapse(cards, 1, << >>)
    /\ pc' = "filter amount"
    /\ fi' = 1
    /\ UNCHANGED << argv, i, decks, outputs, elements, stats, filters, flags,
                    cards, todo, si, out, status >>
    /\ UNCHANGED fsVars

\* [c for k, c in enumerate(cards) if any(k in d["_ids"] for d in collapsed)]
InCollapsed(l, coll) ==
    Positions(l, {k \in 1..Len(l) :
                    \E j \in 1..Len(coll) :
                        \E n \in 1..Len(coll[j]["_ids"]) : coll[j]["_ids"][n] = k}, 1)

FilterAmount ==
    /\ pc = "filter amount"
    /\ fi <= Len(filters)
    /\ LET e == filters[fi][1]
           f == filters[fi][2]
           kept == Positions(collapsed,
                       {k \in 1..Len(collapsed) : AnyOption(collapsed[k], e, f)}, 1)
       IN  IF e # "amount"
           THEN UNCHANGED << cards, collapsed >>
           ELSE /\ collapsed' = kept
                /\ cards' = InCollapsed(cards, kept)
    /\ fi' = fi + 1
    /\ UNCHANGED << argv, pc, i, decks, outputs, elements, stats, filters, flags,
                    todo, si, out, status >>
    /\ UNCHANGED fsVars

(***************************************************************************)
(* sort cards                                                              *)
(***************************************************************************)
\* a < b for two values of attribute e that are not None
Less(e, a, b) ==
    IF ELEMENTS[e] THEN a < b
    ELSE IF e \in {"foil", "modern", "commander", "fullart"} THEN ~a /\ b
    ELSE StrLess(a, b)

\* cmp_element with the two results for None exchanged
cmp_element_none_last(a, b, e) ==
    IF a[e] = NoneOf(e) /\ b[e] = NoneOf(e) THEN 0
    ELSE IF a[e] = NoneOf(e) THEN 1
    ELSE IF b[e] = NoneOf(e) THEN -1
    ELSE IF Less(e, a[e], b[e]) THEN -1
    ELSE IF Less(e, b[e], a[e]) THEN 1
    ELSE 0

\* the result of comparing a[e] and b[e]; 0 when the loop goes on
cmp_element(a, b, e) ==
    IF a[e] = NoneOf(e) /\ b[e] = NoneOf(e) THEN 0
    ELSE IF a[e] = NoneOf(e) THEN -1
    ELSE IF b[e] = NoneOf(e) THEN 1
    ELSE IF Less(e, a[e], b[e]) THEN -1
    ELSE IF Less(e, b[e], a[e]) THEN 1
    ELSE 0

\* sort by elements in the order they were specified, from element k on
RECURSIVE cmp_from(_, _, _)
cmp_from(a, b, k) ==
    IF k > Len(elements) THEN 0
    ELSE IF cmp_element(a, b, elements[k]) # 0 THEN cmp_element(a, b, elements[k])
    ELSE cmp_from(a, b, k + 1)

cmp(a, b) == cmp_from(a, b, 1)

\* list.sort(key=cmp_to_key(cmp)): a stable sort, which puts x after every
\* element already placed that x is not less than
RECURSIVE sort(_)
sort(l) ==
    IF l = << >> THEN << >>
    ELSE LET front == sort(SubSeq(l, 1, Len(l) - 1))
             x == l[Len(l)]
             after == {k \in 1..Len(front) : cmp(x, front[k]) < 0}
             n == IF after = {} THEN Len(front)
                  ELSE (CHOOSE k \in after : \A h \in after : k <= h) - 1
         IN  SubSeq(front, 1, n) \o << x >> \o SubSeq(front, n + 1, Len(front))

SortCards ==
    /\ pc = "filter amount"
    /\ fi > Len(filters)
    /\ cards' = sort(cards)
    /\ collapsed' = sort(collapsed)
    /\ pc' = "print"
    /\ si' = 1
    /\ UNCHANGED << argv, i, decks, outputs, elements, stats, filters, flags,
                    todo, fi, out, status >>
    /\ UNCHANGED fsVars

(***************************************************************************)
(* print global statistics                                                 *)
(***************************************************************************)
\* the values expand(e) yields, from card k on
RECURSIVE expand_from(_, _, _)
expand_from(l, e, k) ==
    IF k > Len(l) THEN << >>
    ELSE (IF e = "amount" THEN << l[k][e] >>
          ELSE IF l[k][e] # NoneOf(e) THEN [n \in 1..l[k]["amount"] |-> l[k][e]]
          ELSE << >>)
         \o expand_from(l, e, k + 1)

\* an expand that reads the collapsed cards
ExpandedCollapsed == collapsed

\* the cards expand reads
Expanded == cards

expand(e) == expand_from(Expanded, e, 1)

RECURSIVE sum(_)
sum(l) == IF l = << >> THEN 0 ELSE Head(l) + sum(Tail(l))

max(l) == CHOOSE x \in {l[k] : k \in 1..Len(l)} : \A k \in 1..Len(l) : l[k] <= x

min(l) == CHOOSE x \in {l[k] : k \in 1..Len(l)} : \A k \in 1..Len(l) : x <= l[k]

\* sorted(l) for numbers
RECURSIVE sorted(_)
sorted(l) ==
    IF l = << >> THEN << >>
    ELSE LET front == sorted(SubSeq(l, 1, Len(l) - 1))
             x == l[Len(l)]
             n == Cardinality({k \in 1..Len(front) : front[k] <= x})
         IN  SubSeq(front, 1, n) \o << x >> \o SubSeq(front, n + 1, Len(front))

\* n / d in hundredths, rounded half to even: 100 * round(n / d, 2)
Hundredths(n, d) ==
    LET q == (100 * n) \div d
        r == (100 * n) % d
    IN  IF 2 * r < d THEN q
        ELSE IF 2 * r > d THEN q + 1
        ELSE IF q % 2 = 0 THEN q ELSE q + 1

Number(n, d) == [raised |-> "", value |-> Hundredths(n, d)]
Raised(exception) == [raised |-> exception, value |-> 0]

\* round(stat_map(l), 2) in hundredths, or the exception stat_map raises
stat_map(m, l) ==
    CASE m = "-total-" -> Number(sum(l), 1)
      [] m = "-max-" -> IF l = << >> THEN Raised("ValueError") ELSE Number(max(l), 1)
      [] m = "-min-" -> IF l = << >> THEN Raised("ValueError") ELSE Number(min(l), 1)
      [] m = "-avg-" -> IF l = << >> THEN Raised("StatisticsError")
                        ELSE Number(sum(l), Len(l))
      [] m = "-median-" ->
            IF l = << >> THEN Raised("StatisticsError")
            ELSE LET data == sorted(l)
                     n == Len(l)
                 IN  IF n % 2 = 1 THEN Number(data[(n \div 2) + 1], 1)
                     ELSE Number(data[n \div 2] + data[(n \div 2) + 1], 2)
      [] m = "-unique-" -> Number(Cardinality({l[k] : k \in 1..Len(l)}), 1)

PrintStatistic ==
    /\ pc = "print"
    /\ cards # << >>
    /\ si <= Len(stats)
    /\ LET e == stats[si][1]
           m == stats[si][2]
           result == stat_map(m, expand(e))
       IN  IF result.raised # ""
           THEN /\ Raise(result.raised)
                /\ UNCHANGED si
           ELSE /\ out' = Append(out, Line("statistic", e, m, result.value))
                /\ si' = si + 1
                /\ UNCHANGED << pc, status >>
    /\ UNCHANGED << argv, i, decks, outputs, elements, stats, filters, flags,
                    cards, collapsed, todo, fi >>
    /\ UNCHANGED fsVars

\* the end of the printing (lines 436-441), the html page (481-506), the raw
\* lines printed under "-o" (529-530); the loop over the outputs begins
Printed ==
    /\ pc = "print"
    /\ cards = << >> \/ si > Len(stats)
    /\ out' = out
              \o (IF cards = << >> /\ decks # {}
                  THEN << Line("No matches found", "", "", 0) >> ELSE << >>)
              \o (IF "html" \in flags
                  THEN << Line("HTML document saved", "", "", 0) >> ELSE << >>)
              \o (IF "o" \in flags
                  THEN [k \in 1..Len(cards) |-> Line("raw", "", "", cards[k]["raw"])]
                  ELSE << >>)
    /\ io' = io \o (IF "html" \in flags THEN << << "write html", "" >> >> ELSE << >>)
    /\ pc' = "output cards to decks"
    /\ todo' = outputs
    /\ UNCHANGED << argv, i, decks, outputs, elements, stats, filters, flags,
                    cards, collapsed, fi, si, status >>
    /\ UNCHANGED << fs_dirs, fs_data, fs_raw, failing >>

(***************************************************************************)
(* output cards to decks                                                   *)
(***************************************************************************)
OutputIsNone ==
    /\ pc = "output cards to decks"
    /\ None \in todo
    /\ Raise("TypeError")
    /\ UNCHANGED << argv, i, decks, outputs, elements, stats, filters, flags >>
    /\ UNCHANGED << loadVars, fsVars >>

OutputCards ==
    \E deck \in todo \ {None} :
        /\ pc = "output cards to decks"
        /\ fs_dirs' = fs_dirs \cup {deck}
        /\ fs_raw' = [fs_raw EXCEPT
                        ![deck] = RawFile([k \in 1..Len(cards) |-> cards[k]["raw"]])]
        /\ Did(<< << "isdir", deck >>, << "write raw.txt", deck >> >>)
        /\ todo' = todo \ {deck}
        /\ UNCHANGED << argv, pc, i, decks, outputs, elements, stats, filters,
                        flags, cards, collapsed, fi, si, out, status >>
        /\ UNCHANGED << fs_data, failing >>

\* exit(0)
Exit ==
    /\ pc = "output cards to decks"
    /\ todo = {}
    /\ pc' = "exit"
    /\ status' = 0
    /\ UNCHANGED << argv, i, decks, outputs, elements, stats, filters, flags,
                    cards, collapsed, todo, fi, si, out >>
    /\ UNCHANGED fsVars

(***************************************************************************)
(* The runs of the model: arguments and files                              *)
(***************************************************************************)
MaxArgs == 3    \* arguments of a run over the whole grammar
MaxQuery == 2   \* directives of a query over a cached deck
MaxCards == 2   \* cards of a cached deck
MaxAmount == 2  \* amount of one card of a cached deck
MaxRaw == 2     \* lines of a raw.txt

DeckNames == {"A", "B"}

\* all sequences over S of length at most n
SeqUpTo(S, n) == UNION {[1..k -> S] : k \in 0..n}

Display(e) == Token("-", e, None, << >>)
Shown(e, o, v) == Token("-", e, None, << << o, v >> >>)
Hidden(e, o, v) == Token("-", e, "#", << << o, v >> >>)
Statistic(m, e) == Token(m, e, None, << >>)
Bare(deck) == Token(None, deck, None, << >>)

\* the tokens of the runs over the whole grammar: "-name", "-max-name",
\* "-name<a", "-usd?1", "-bogus", "-o", "-get", "A", "B", "" (every group of
\* the regex is None), "-amount>=x", "-amount>=1x2"
GrammarTokens ==
    { Display("name"), Statistic("-max-", "name"), Shown("name", "<", << "a" >>),
      Shown("usd", "?", << "1" >>), Display("bogus"), Display("o"), Display("get"),
      Bare("A"), Bare("B"), Bare(None), Shown("amount", ">=", << "x" >>),
      Shown("amount", ">=", << "1", "x", "2" >>) }

\* "-name", "-subtype", "-amount>=2", "-amount#<=2", "-usd#>=1"
QueryTokens ==
    { Display("name"), Display("subtype"), Shown("amount", ">=", << "2" >>),
      Hidden("amount", "<=", << "2" >>), Hidden("usd", ">=", << "1" >>) }

\* "-amount>=2", "-amount#<=2", "-amount#>=1"
AmountTokens ==
    { Shown("amount", ">=", << "2" >>), Hidden("amount", "<=", << "2" >>),
      Hidden("amount", ">=", << "1" >>) }

\* every operator on an attribute that can be None, shown or not, and two
\* filters with two options: "-subtype#!=s/?x", "-usd=1/>1"
FilterTokens ==
    { Hidden("subtype", o, << "s" >>) : o \in {"=", "!=", "?", "!?"} }
    \cup { Hidden("usd", o, << "1" >>) : o \in {"=", "!=", "<", "<=", ">", ">="} }
    \cup { Shown("subtype", "!=", << "s" >>), Shown("usd", "<", << "2" >>),
           Token("-", "subtype", "#", << << "!=", << "s" >> >>, << "?", << "x" >> >> >>),
           Token("-", "usd", None, << << "=", << "1" >> >>, << ">", << "1" >> >> >>) }

\* every statistic the schema allows on amount, usd, name and subtype
StatisticTokens ==
    { Statistic(m, e) : m \in DOMAIN PREFIXES, e \in {"amount", "usd"} }
    \cup { Statistic("-unique-", "name"), Statistic("-unique-", "subtype") }

\* a line of a collapsed raw.txt and the card a run under "-get" made of it
Raw(amount, number, foil) ==
    [amount |-> amount, set |-> << "m" >>, number |-> number,
     lang |-> << "e", "n" >>, foil |-> foil]

CachedCard(amount, number, foil) ==
    MakeCard(Raw(amount, number, foil), Catalogue[number])

\* the cards a data.json can hold: a data.json is written by a run under
\* "-get", so no two of its cards have the same number and foil
Printings == { << << "1" >>, FALSE_ >>, << << "1" >>, TRUE_ >>, << << "2" >>, FALSE_ >> }

CachedDecks ==
    { [k \in 1..Len(ps) |-> CachedCard(am[k], ps[k][1], ps[k][2])] :
        ps \in { q \in SeqUpTo(Printings, MaxCards) :
                    \A a, b \in 1..Len(q) : a # b => q[a] # q[b] },
        am \in [1..MaxCards -> 1..MaxAmount] }

\* the lines a raw.txt of the model is made of
RawLines ==
    { << << "1" >>, << "m" >>, << "1" >>, << "e", "n" >>, FALSE_ >>,
      << << "2" >>, << "m" >>, << "1" >>, << "e", "n" >>, << "T", "r", "u", "e" >> >>,
      << << "1" >>, << "m" >>, << "2" >>, << "e", "n" >>, FALSE_ >>,
      << << "1" >>, << "m" >>, << "3" >>, << "e", "n" >>, FALSE_ >>,
      << << "x" >>, << "m" >>, << "1" >>, << "e", "n" >>, FALSE_ >>,
      << << "1" >>, << "m" >>, << "1" >>, << "e", "n" >> >> }

Run(args, dirs, data, raw, bad) ==
    [argv |-> args, dirs |-> dirs, data |-> data, raw |-> raw, failing |-> bad]

\* deck B as every run over a cached deck A finds it
DeckB == JsonFile(<< CachedCard(1, << "2" >>, FALSE_) >>)
RawB == RawFile(<< << << "2" >>, << "m" >>, << "2" >>, << "e", "n" >>, FALSE_ >> >>)

\* a run over deck A, cached
Query(args, deck) ==
    Run(<< Bare("A") >> \o args, DeckNames,
        [d \in DeckNames |-> IF d = "A" THEN JsonFile(deck) ELSE DeckB],
        [d \in DeckNames |-> IF d = "A" THEN NoRawFile ELSE RawB], {})

Start(run) ==
    /\ argv = run.argv
    /\ fs_dirs = run.dirs
    /\ fs_data = run.data
    /\ fs_raw = run.raw
    /\ failing = run.failing
    /\ pc = "parse arguments"
    /\ i = 1
    /\ decks = {}
    /\ outputs = {}
    /\ elements = << >>
    /\ stats = << >>
    /\ filters = << >>
    /\ flags = {}
    /\ cards = << >>
    /\ collapsed = << >>
    /\ todo = {}
    /\ fi = 1
    /\ si = 1
    /\ io = << >>
    /\ out = << >>
    /\ status = -1

\* runs over the whole grammar: deck A is cached and has a raw.txt, deck B
\* does not exist
GrammarRuns ==
    \E args \in SeqUpTo(GrammarTokens, MaxArgs) :
        Start(Run(args, {"A"},
                  [d \in DeckNames |->
                      IF d = "A" THEN JsonFile(<< CachedCard(1, << "1" >>, FALSE_) >>)
                      ELSE NoFile],
                  [d \in DeckNames |->
                      IF d = "A" THEN RawFile(<< << << "1" >>, << "m" >>, << "1" >>,
                                                    << "e", "n" >>, FALSE_ >> >>)
                      ELSE NoRawFile],
                  {}))

QueryRuns ==
    \E args \in SeqUpTo(QueryTokens, MaxQuery), deck \in CachedDecks :
        Start(Query(args, deck))

\* one displayed attribute and two filters on amount
AmountRuns ==
    \E f \in AmountTokens, g \in AmountTokens, deck \in CachedDecks :
        Start(Query(<< Display("name"), f, g >>, deck))

FilterRuns ==
    \E f \in FilterTokens, deck \in CachedDecks : Start(Query(<< f >>, deck))

StatisticRuns ==
    \E args \in { << >>, << Display("name") >>, << Hidden("usd", ">=", << "2" >>) >> },
       m \in StatisticTokens, deck \in CachedDecks :
        Start(Query(args \o << m >>, deck))

\* runs under "-get": raw.txt and data.json of deck A vary, and the numbers
\* the provider fails on
GetRuns ==
    \E args \in { << Display("get"), Bare("A") >>,
                  << Bare("A"), Bare("B"), Display("get"), Display("html") >>,
                  << Display("get"), Bare("A"), Display("o"), Bare("B"),
                     Display("o") >> },
       data \in { NoFile, GarbageFile, JsonFile(<< CachedCard(2, << "1" >>, FALSE_) >>) },
       raw \in { NoRawFile } \cup { RawFile(l) : l \in SeqUpTo(RawLines, MaxRaw) },
       bad \in SUBSET {<< "1" >>, << "2" >>} :
        Start(Run(args, DeckNames,
                  [d \in DeckNames |-> IF d = "A" THEN data ELSE DeckB],
                  [d \in DeckNames |-> IF d = "A" THEN raw ELSE RawB],
                  bad))

Init ==
    \/ GrammarRuns
    \/ QueryRuns
    \/ AmountRuns
    \/ FilterRuns
    \/ StatisticRuns
    \/ GetRuns

Next ==
    \/ StatElement
    \/ FilteredCountableElement
    \/ FilteredUncountableElement
    \/ UnfilteredElement
    \/ Flag
    \/ Deck
    \/ UnableToMatch
    \/ ParsedArguments
    \/ DeckIsNone
    \/ DeckNotFound
    \/ LoadFromFile
    \/ GetFromApi
    \/ GotCardData
    \/ ApplyCardFilter
    \/ CollapseDuplicateCards
    \/ FilterAmount
    \/ SortCards
    \/ PrintStatistic
    \/ Printed
    \/ OutputIsNone
    \/ OutputCards
    \/ Exit

Spec == Init /\ [][Next]_vars

(***************************************************************************)
(* Properties                                                              *)
(***************************************************************************)
Positions_(l) == 1..Len(l)

\* t names an attribute with a filter suffix
FilterShape(t) ==
    t.prefix = "-" /\ t.element \in DOMAIN ELEMENTS /\ t.search # << >>

\* t fits no rule of the grammar: it is no statistic, attribute, flag or deck
NoGrammarRule(t) ==
    /\ ~(t.prefix \in DOMAIN PREFIXES /\ t.element \in DOMAIN ELEMENTS)
    /\ ~(t.prefix = "-" /\ t.element \in DOMAIN ELEMENTS \cup FLAGS)
    /\ ~(t.prefix = None /\ t.show = None /\ t.search = << >>)

\* t asks for a statistic or an operator the schema does not permit for the
\* kind of its attribute
SchemaViolation(t) ==
    \/ /\ t.prefix \in DOMAIN PREFIXES
       /\ t.element \in DOMAIN ELEMENTS
       /\ ~ELEMENTS[t.element] /\ t.prefix # "-unique-"
    \/ /\ FilterShape(t)
       /\ \E k \in Positions_(t.search) :
             \/ ~ELEMENTS[t.element] /\ t.search[k][1] \in {"<", "<=", ">", ">="}
             \/ ELEMENTS[t.element] /\ t.search[k][1] \in {"?", "!?"}

Rejected(t) == NoGrammarRule(t) \/ SchemaViolation(t)

BareDeck(t) == t.prefix = None /\ t.show = None /\ t.search = << >>

\* an "-o" stands before argument k with no bare deck token between them
Pending(k) ==
    \E j \in 1..(k - 1) :
        /\ argv[j] = Token("-", "o", None, << >>)
        /\ \A n \in (j + 1)..(k - 1) : ~BareDeck(argv[n])

\* C8: of the arguments parsed so far, the bare deck tokens that directly
\* follow an "-o" (no other deck token in between) are the output targets, all
\* other bare deck tokens are the input decks, and the flag is set exactly
\* when no bare deck token followed the last "-o"
C8_OutputFlagTakesNextDeck ==
    LET parsed == 1..(i - 1) IN
    /\ outputs = {argv[k].element : k \in {n \in parsed : BareDeck(argv[n]) /\ Pending(n)}}
    /\ decks = {argv[k].element : k \in {n \in parsed : BareDeck(argv[n]) /\ ~Pending(n)}}
    /\ "o" \in flags <=> Pending(i)

\* C8 witness: "-o A B" has been parsed: A is an output, B an input
C8_Witness ==
    /\ Len(argv) = 3 /\ i = 4
    /\ argv[1] = Token("-", "o", None, << >>)
    /\ BareDeck(argv[2]) /\ BareDeck(argv[3]) /\ argv[2] # argv[3]
    /\ outputs = {argv[2].element} /\ decks = {argv[3].element}
    /\ "o" \notin flags

\* filter k has been applied to the cards
Applied(k) ==
    IF filters[k][1] = "amount"
    THEN \/ pc = "filter amount" /\ fi > k
         \/ pc \in {"print", "output cards to decks"}
    ELSE \/ pc = "apply card filters" /\ fi > k
         \/ pc \in {"filter amount", "print", "output cards to decks"}

\* C4: once a filter has been applied, whatever its operators, no card and no
\* collapsed card is left whose value for the filtered attribute is None
C4_NoneNeverPasses ==
    \A k \in Positions_(filters) :
        Applied(k) =>
            LET e == filters[k][1] IN
            /\ \A n \in Positions_(cards) : cards[n][e] # NoneOf(e)
            /\ \A n \in Positions_(collapsed) : collapsed[n][e] # NoneOf(e)

\* C4 witness: a filter whose only operator is "!=" or "!?" has removed a
\* card whose value was None and kept another card
C4_Witness ==
    /\ pc = "filter amount"
    /\ Len(filters) = 1 /\ Len(filters[1][2]) = 1
    /\ filters[1][2][1][1] \in {"!=", "!?"}
    /\ \E n \in Positions_(fs_data["A"].cards) :
          fs_data["A"].cards[n][filters[1][1]] = NoneOf(filters[1][1])
    /\ cards # << >>
    /\ Len(cards) < Len(fs_data["A"].cards)

\* the collapse has just run: cards is the list it read, and the "_ids" of the
\* collapsed cards are positions of it
JustCollapsed == pc = "filter amount" /\ fi = 1

\* cards a and b were merged into one collapsed card
Merged(a, b) ==
    \E j \in Positions_(collapsed) :
        /\ \E n \in Positions_(collapsed[j]["_ids"]) : collapsed[j]["_ids"][n] = a
        /\ \E n \in Positions_(collapsed[j]["_ids"]) : collapsed[j]["_ids"][n] = b

Displayed == {elements[k] : k \in Positions_(elements)}
Aggregated == {stats[k][1] : k \in Positions_(stats)}

\* cards a and b are equal on every attribute of S but amount
EqualOn(S, a, b) == \A e \in S \ {"amount"} : cards[a][e] = cards[b][e]

\* C1 as stated: two cards are merged exactly when they are equal on every
\* displayed attribute and every attribute of a statistic, amount excluded
C1_MergedIffEqualOnDisplayedAndAggregated ==
    JustCollapsed =>
        \A a, b \in Positions_(cards) :
            Merged(a, b) <=> EqualOn(Displayed \cup Aggregated, a, b)

\* C1 amended: two cards are merged exactly when they are equal on every
\* displayed attribute, amount excluded; every card is in a collapsed card
C1_MergedIffEqualOnDisplayed ==
    JustCollapsed =>
        \A a, b \in Positions_(cards) : Merged(a, b) <=> EqualOn(Displayed, a, b)

\* C1 witness: two cards that differ on the attribute of a statistic, which
\* is not displayed, are one collapsed card
C1_Witness ==
    /\ JustCollapsed
    /\ \E a, b \in Positions_(cards) :
          /\ a # b /\ Merged(a, b)
          /\ \E e \in Aggregated \ (Displayed \cup {"amount"}) :
                cards[a][e] # cards[b][e]

\* the cards of the input decks, each named by its deck and position
Sources ==
    {s \in (decks \ {None}) \X (1..MaxCards + MaxRaw + 1) :
        s[2] <= Len(fs_data[s[1]].cards)}

Source(s) == fs_data[s[1]].cards[s[2]]

\* c satisfies every filter that is not on amount: its value is not None and
\* one option of the filter accepts it
PassesOwnFilters(c) ==
    \A k \in Positions_(filters) :
        filters[k][1] # "amount" =>
            /\ c[filters[k][1]] # NoneOf(filters[k][1])
            /\ AnyOption(c, filters[k][1], filters[k][2])

\* amount n satisfies every filter on amount
PassesAmountFilters(n) ==
    \A k \in Positions_(filters) :
        filters[k][1] = "amount" =>
            \E o \in Positions_(filters[k][2]) :
                filter_map(filters[k][2][o][1], n, filters[k][2][o][2])

\* the summed amount of the source cards of S
RECURSIVE SumAmounts(_)
SumAmounts(S) ==
    IF S = {} THEN 0
    ELSE LET s == CHOOSE s \in S : TRUE IN
         Source(s)["amount"] + SumAmounts(S \ {s})

\* the summed amount of the source cards that pass their own filters and are
\* equal to c on the displayed attributes
Total(c) ==
    SumAmounts({s \in Sources : PassesOwnFilters(Source(s)) /\ Relevant(Source(s), c)})

\* C5: the collapsed cards are the groups of the source cards that pass every
\* filter not on amount (tested on each card alone, before it is merged), each
\* with the summed amount of its group, and a group is kept exactly when this
\* sum, not the amount of one of its cards, passes every filter on amount
C5_TwoPassFiltering ==
    pc = "print" =>
        /\ \A j \in Positions_(collapsed) :
              /\ collapsed[j]["amount"] = Total(collapsed[j])
              /\ collapsed[j]["amount"] > 0
              /\ PassesAmountFilters(collapsed[j]["amount"])
        /\ \A s \in Sources :
              PassesOwnFilters(Source(s)) /\ PassesAmountFilters(Total(Source(s)))
                  => \E j \in Positions_(collapsed) : Relevant(Source(s), collapsed[j])
        /\ \A j, k \in Positions_(collapsed) :
              j # k => ~Relevant(collapsed[j], collapsed[k])

\* C5 witness: two cards of amount 1 were merged and the collapsed card of
\* amount 2 passed "amount>=2"
C5_Witness ==
    /\ pc = "print"
    /\ \E k \in Positions_(filters) : filters[k] = << "amount", << << ">=", 2 >> >> >>
    /\ \E j \in Positions_(collapsed) :
          /\ collapsed[j]["amount"] = 2
          /\ Len(collapsed[j]["_ids"]) = 2

\* a is before b by the first displayed attribute on which they differ
Before(a, b) ==
    \E k \in Positions_(elements) :
        /\ \A j \in 1..(k - 1) : a[elements[j]] = b[elements[j]]
        /\ LET e == elements[k] IN
           \/ a[e] = NoneOf(e) /\ b[e] # NoneOf(e)
           \/ a[e] # NoneOf(e) /\ b[e] # NoneOf(e) /\ Less(e, a[e], b[e])

EqualOnAll(a, b) == \A k \in Positions_(elements) : a[elements[k]] = b[elements[k]]

\* new is old in the order of Before, cards that are equal on all displayed
\* attributes in their order in old
StablySorted(old, new) ==
    /\ Len(new) = Len(old)
    /\ \E p \in Permutations(Positions_(old)) :
          /\ \A k \in Positions_(old) : new[k] = old[p[k]]
          /\ \A k, n \in Positions_(old) :
                k < n => /\ ~Before(new[n], new[k])
                         /\ EqualOnAll(new[k], new[n]) => p[k] < p[n]
                         /\ ~EqualOnAll(new[k], new[n]) => Before(new[k], new[n])

\* C9: the sort step orders cards and collapsed cards by the first displayed
\* attribute on which two of them differ, None before any value, and keeps
\* the order of those equal on all displayed attributes
C9_SortOrder ==
    [][pc = "filter amount" /\ pc' = "print" =>
          StablySorted(cards, cards') /\ StablySorted(collapsed, collapsed')]_vars

\* C9 witness: with two displayed attributes, the sort has moved a card
\* whose first attribute is None from the second place to the first
C9_Witness ==
    /\ pc = "print"
    /\ Len(elements) = 2 /\ Len(collapsed) = 2
    /\ collapsed[1][elements[1]] = NoneOf(elements[1])
    /\ collapsed[2][elements[1]] # NoneOf(elements[1])
    /\ collapsed[1]["_ids"] = << 2 >>

\* the positions of the statistic lines printed so far
Statistics == {k \in Positions_(out) : out[k].kind = "statistic"}

\* a statistic raised an exception: the run ended on it with cards loaded
StatisticRaised ==
    /\ pc = "exit" /\ status # 0 /\ cards # << >>
    /\ out # << >>
    /\ out[Len(out)].kind \in {"ValueError", "StatisticsError"}

\* C2 as stated: a statistic whose attribute has no value in the remaining
\* cards is never printed as a number, and never ends the run with an
\* exception
C2_EmptyStatisticIsNoData ==
    /\ \A k \in Statistics : expand(out[k].e) # << >>
    /\ ~StatisticRaised

\* the multiset the statistic of attribute e is claimed to be computed over:
\* the collapsed cards, each value once per unit of the summed amount, and for
\* amount each summed amount once
OverCollapsed(e) == expand_from(collapsed, e, 1)

\* C6 as stated: every statistic printed is the statistic of the multiset
\* built from the collapsed cards
C6_StatisticsOverCollapsed ==
    \A k \in Statistics :
        OverCollapsed(out[k].e) # << >> =>
            out[k].value = stat_map(out[k].m, OverCollapsed(out[k].e)).value

\* C10 as stated: after the filters on amount, the amounts of cards sum to the
\* amounts of the collapsed cards
C10_CardsAreTheCollapsedCards ==
    pc = "print" => sum([k \in Positions_(cards) |-> cards[k]["amount"]])
                    = sum([k \in Positions_(collapsed) |-> collapsed[k]["amount"]])

\* C3 as stated: a step that ends the run on a bad status of the provider
\* leaves every data.json as it was
C3_FailedFetchKeepsCache ==
    [][(/\ pc = "get card data" /\ pc' = "exit"
        /\ out' # << >>
        /\ out'[Len(out')].kind = "returned http code")
       => fs_data' = fs_data]_vars

\* the values of attribute e among the cards, None left out
Values(e) == {cards[k][e] : k \in Positions_(cards)} \ {NoneOf(e)}

RECURSIVE AmountOf(_)
AmountOf(S) ==
    IF S = {} THEN 0
    ELSE LET k == CHOOSE k \in S : TRUE IN cards[k]["amount"] + AmountOf(S \ {k})

\* how often value v of attribute e counts: once per card for amount, once
\* per unit of the amount of each card that has it for any other attribute
Weight(e, v) ==
    LET having == {k \in Positions_(cards) : cards[k][e] = v} IN
    IF e = "amount" THEN Cardinality(having) ELSE AmountOf(having)

RECURSIVE Weighted(_, _, _)
Weighted(e, V, unit) ==
    IF V = {} THEN 0
    ELSE LET v == CHOOSE v \in V : TRUE IN
         (IF unit THEN 1 ELSE v) * Weight(e, v) + Weighted(e, V \ {v}, unit)

\* the value of rank r (1 the smallest) among the weighted values of e
Ranked(e, r) ==
    CHOOSE v \in Values(e) :
        /\ Weighted(e, {w \in Values(e) : w <= v}, TRUE) >= r
        /\ Weighted(e, {w \in Values(e) : w < v}, TRUE) < r

\* statistic m of the weighted values of e, in hundredths
OverCards(m, e) ==
    LET n == Weighted(e, Values(e), TRUE) IN
    CASE m = "-total-" -> 100 * Weighted(e, Values(e), FALSE)
      [] m = "-max-" -> 100 * (CHOOSE v \in Values(e) : \A w \in Values(e) : w <= v)
      [] m = "-min-" -> 100 * (CHOOSE v \in Values(e) : \A w \in Values(e) : v <= w)
      [] m = "-avg-" -> Hundredths(Weighted(e, Values(e), FALSE), n)
      [] m = "-median-" ->
            IF n % 2 = 1 THEN 100 * Ranked(e, (n + 1) \div 2)
            ELSE 50 * (Ranked(e, n \div 2) + Ranked(e, (n \div 2) + 1))
      [] m = "-unique-" -> 100 * Cardinality(Values(e))

\* C6 amended: every statistic printed is the statistic of the uncollapsed
\* cards left after the filters on amount: a value counts once per unit of the
\* amount of each card that has it, an amount once per card
C6_StatisticsOverCards ==
    \A k \in Statistics :
        Values(out[k].e) # {} => out[k].value = OverCards(out[k].m, out[k].e)

\* C6 witness: two cards of amount 1 are one collapsed card of amount 2, and
\* the maximum printed for amount is 1
C6_Witness ==
    /\ Len(collapsed) = 1 /\ collapsed[1]["amount"] = 2
    /\ Len(cards) = 2
    /\ \E k \in Statistics :
          out[k].m = "-max-" /\ out[k].e = "amount" /\ out[k].value = 100

====
